---- MODULE Spec2Model ----
(***************************************************************************)
(* Model of the TIS-100 assembly parser of src/src/main.rs.                *)
(*                                                                         *)
(* A &str is a sequence of one-character strings, so that find, contains,  *)
(* starts_with, ends_with, split_whitespace, slicing and the integer       *)
(* parsers are computed character by character as the code computes them.  *)
(* A Result is a record [ok, val, err]; an Option is a record [some, val]. *)
(* String indices are 1-based here (0-based in the code); Find returns 0   *)
(* for None.                                                               *)
(***************************************************************************)
EXTENDS Integers, Sequences, FiniteSets, TLC

VARIABLES
    pc,            \* position of the running call
    doc,           \* the lines the parse_spec call has taken from its Lines iterator
    next_section,  \* parse_spec: next_section
    raw_program,   \* parse_spec: raw_program
    raw_programs,  \* parse_spec: raw_programs
    buf,           \* parse_program: its argument buf
    line,          \* get_label: its argument line
    result         \* the value the call returned

vars == <<pc, doc, next_section, raw_program, raw_programs, buf, line, result>>

-----------------------------------------------------------------------------
(* Bounds of the model *)

\* get_label is applied to every line of at most this many characters
MaxLineLen == 4
\* parse_program is applied to every body of at most this many lines
MaxBody == 3
\* a document holds at most this many body lines besides the blank line
\* that may directly follow a header or a non-blank body line
MaxExtra == 2
\* and those lines lie in the first MaxRich sections
MaxRich == 2

(* Program constants *)

\* `sec > 11`
MaxSection == 11
I16Min == -32768
I16Max == 32767
U8Max == 255

-----------------------------------------------------------------------------
(* Results, options and strings *)

NoErr == [msg |-> "", arg |-> <<>>, nums |-> <<>>]
Error(msg, arg, nums) == [msg |-> msg, arg |-> arg, nums |-> nums]
Ok(v) == [ok |-> TRUE, val |-> v, err |-> NoErr]
Err(e) == [ok |-> FALSE, val |-> <<>>, err |-> e]
NoResult == [ok |-> FALSE, val |-> <<>>, err |-> Error("not returned", <<>>, <<>>)]

None == [some |-> FALSE, val |-> <<>>]
Some(v) == [some |-> TRUE, val |-> v]

\* char::is_whitespace, restricted to the two whitespace characters of the model
IsWhitespace(c) == c \in {" ", "\t"}

\* str::find(c): index of the first occurrence, 0 when there is none
Find(s, c) ==
    IF \E i \in 1..Len(s) : s[i] = c
    THEN CHOOSE i \in 1..Len(s) : s[i] = c /\ \A j \in 1..(i - 1) : s[j] # c
    ELSE 0

\* str::contains(c)
Contains(s, c) == \E i \in 1..Len(s) : s[i] = c

\* str::starts_with(c) and str::ends_with(c) for a one-character pattern
StartsWith(s, c) == Len(s) >= 1 /\ s[1] = c
EndsWith(s, c) == Len(s) >= 1 /\ s[Len(s)] = c

\* str::split_whitespace, collected: the maximal runs of non-whitespace
RECURSIVE SplitFrom(_, _, _)
SplitFrom(s, i, cur) ==
    IF i > Len(s)
    THEN IF cur = <<>> THEN <<>> ELSE <<cur>>
    ELSE IF IsWhitespace(s[i])
         THEN IF cur = <<>>
              THEN SplitFrom(s, i + 1, <<>>)
              ELSE <<cur>> \o SplitFrom(s, i + 1, <<>>)
         ELSE SplitFrom(s, i + 1, Append(cur, s[i]))

SplitWhitespace(s) == SplitFrom(s, 1, <<>>)

Digits == <<"0", "1", "2", "3", "4", "5", "6", "7", "8", "9">>
IsDigit(c) == \E d \in 1..10 : Digits[d] = c
DigitVal(c) == (CHOOSE d \in 1..10 : Digits[d] = c) - 1

\* core::num from_str_radix(_, 10): the digits are folded left to right; a
\* character that is no digit stops with InvalidDigit, a step that leaves
\* lo..hi stops with an overflow error
RECURSIVE ParseDigits(_, _, _, _, _, _)
ParseDigits(s, i, acc, positive, lo, hi) ==
    IF i > Len(s) THEN Ok(acc)
    ELSE IF ~IsDigit(s[i])
         THEN Err(Error("invalid digit found in string", <<>>, <<>>))
         ELSE LET nxt == IF positive THEN acc * 10 + DigitVal(s[i])
                         ELSE acc * 10 - DigitVal(s[i])
              IN  IF nxt > hi
                  THEN Err(Error("number too large to fit in target type", <<>>, <<>>))
                  ELSE IF nxt < lo
                       THEN Err(Error("number too small to fit in target type", <<>>, <<>>))
                       ELSE ParseDigits(s, i + 1, nxt, positive, lo, hi)

ParseInt(s, signed, lo, hi) ==
    IF s = <<>>
    THEN Err(Error("cannot parse integer from empty string", <<>>, <<>>))
    ELSE IF Len(s) = 1 /\ s[1] \in {"+", "-"}
         THEN Err(Error("invalid digit found in string", <<>>, <<>>))
         ELSE IF s[1] = "+" THEN ParseDigits(s, 2, 0, TRUE, lo, hi)
         ELSE IF s[1] = "-" /\ signed THEN ParseDigits(s, 2, 0, FALSE, lo, hi)
         ELSE ParseDigits(s, 1, 0, TRUE, lo, hi)

\* str::parse::<u8>()
ParseU8(s) == ParseInt(s, FALSE, 0, U8Max)

-----------------------------------------------------------------------------
(* Operands: parse_loc, parse_lit, parse_source *)

KwNOP == <<"N", "O", "P">>
KwMOV == <<"M", "O", "V">>
KwSWP == <<"S", "W", "P">>
KwSAV == <<"S", "A", "V">>
KwADD == <<"A", "D", "D">>
KwSUB == <<"S", "U", "B">>
KwNEG == <<"N", "E", "G">>
KwJMP == <<"J", "M", "P">>
KwJEZ == <<"J", "E", "Z">>
KwJNZ == <<"J", "N", "Z">>
KwJGZ == <<"J", "G", "Z">>
KwJLZ == <<"J", "L", "Z">>
KwJRO == <<"J", "R", "O">>
KwLEFT == <<"L", "E", "F", "T">>
KwRIGHT == <<"R", "I", "G", "H", "T">>
KwUP == <<"U", "P">>
KwDOWN == <<"D", "O", "W", "N">>
KwACC == <<"A", "C", "C">>
KwLAST == <<"L", "A", "S", "T">>

parse_loc(s) ==
    IF s = KwLEFT THEN Ok("Left")
    ELSE IF s = KwRIGHT THEN Ok("Right")
    ELSE IF s = KwUP THEN Ok("Up")
    ELSE IF s = KwDOWN THEN Ok("Down")
    ELSE IF s = KwACC THEN Ok("Acc")
    ELSE IF s = KwLAST THEN Ok("Last")
    ELSE Err(Error("Invalid loc", s, <<>>))

parse_lit(s) == ParseInt(s, TRUE, I16Min, I16Max)

\* enum Source: Val(i16) | Loc(Loc)
SourceVal(v) == [kind |-> "Val", val |-> v, loc |-> ""]
SourceLoc(l) == [kind |-> "Loc", val |-> 0, loc |-> l]
NoSource == [kind |-> "", val |-> 0, loc |-> ""]

parse_source(s) ==
    LET l == parse_loc(s)
    IN  IF l.ok THEN Ok(SourceLoc(l.val))
        ELSE LET v == parse_lit(s)
             IN  IF v.ok THEN Ok(SourceVal(v.val)) ELSE Err(v.err)

-----------------------------------------------------------------------------
(* Instructions: eat_comma, parse_mov, parse_line *)

\* enum Instr, every variant with the same fields
Instr(op, src, dst, text) == [op |-> op, src |-> src, dst |-> dst, text |-> text]
Plain(op) == Instr(op, NoSource, "", <<>>)

eat_comma(s) ==
    IF EndsWith(s, ",") THEN Ok(SubSeq(s, 1, Len(s) - 1))
    ELSE Err(Error("invalid mov instruction with no comma", <<>>, <<>>))

\* words: what is left of the SplitWhitespace iterator
parse_mov(words) ==
    IF words = <<>>
    THEN Err(Error("invalid mov instruction without source", <<>>, <<>>))
    ELSE LET c == eat_comma(words[1])
         IN  IF ~c.ok THEN Err(c.err)
             ELSE LET src == parse_source(c.val)
                  IN  IF ~src.ok THEN Err(src.err)
                      ELSE IF Len(words) < 2
                           THEN Err(Error("invalid mov instruction without dest", <<>>, <<>>))
                           ELSE LET dest == parse_loc(words[2])
                                IN  IF ~dest.ok THEN Err(dest.err)
                                    ELSE Ok(Instr("Mov", src.val, dest.val, <<>>))

\* words.next().ok_or(msg).and_then(parse_source).map(variant)
SourceInstr(op, words, msg) ==
    IF words = <<>> THEN Err(Error(msg, <<>>, <<>>))
    ELSE LET src == parse_source(words[1])
         IN  IF src.ok THEN Ok(Instr(op, src.val, "", <<>>)) ELSE Err(src.err)

\* words.next().ok_or(msg).map(variant)
LabelInstr(op, words, msg) ==
    IF words = <<>> THEN Err(Error(msg, <<>>, <<>>))
    ELSE Ok(Instr(op, NoSource, "", words[1]))

\* words.fold(s.to_string(), |acc, s| acc + " " + s)
RECURSIVE FoldWords(_, _)
FoldWords(acc, words) ==
    IF words = <<>> THEN acc
    ELSE FoldWords(acc \o <<" ">> \o words[1], Tail(words))

parse_line(l) ==
    LET words == SplitWhitespace(l)
    IN  IF words = <<>> THEN Ok(Plain("Emptyline"))
        ELSE LET w == words[1]
                 rest == Tail(words)
             IN  IF w = KwNOP THEN Ok(Plain("Nop"))
                 ELSE IF w = KwMOV THEN parse_mov(rest)
                 ELSE IF w = KwSWP THEN Ok(Plain("Swp"))
                 ELSE IF w = KwSAV THEN Ok(Plain("Sav"))
                 ELSE IF w = KwADD
                      THEN SourceInstr("Add", rest, "invalid add instr without source")
                 ELSE IF w = KwSUB
                      THEN SourceInstr("Sub", rest, "invalid sub instr without source")
                 ELSE IF w = KwNEG THEN Ok(Plain("Neg"))
                 ELSE IF w = KwJMP
                      THEN LabelInstr("Jmp", rest, "invalid jmp instr without label")
                 ELSE IF w = KwJEZ
                      THEN LabelInstr("Jez", rest, "invalid jez instr without label")
                 ELSE IF w = KwJNZ
                      THEN LabelInstr("Jnz", rest, "invalid jnz instr without label")
                 ELSE IF w = KwJGZ
                      THEN LabelInstr("Jgz", rest, "invalid jgz instr without label")
                 ELSE IF w = KwJLZ
                      THEN LabelInstr("Jlz", rest, "invalid jlz instr without label")
                 ELSE IF w = KwJRO
                      THEN SourceInstr("Jro", rest, "invalid jro instr without source")
                 ELSE IF StartsWith(w, "#")
                      THEN Ok(Instr("Comment", NoSource, "", FoldWords(w, rest)))
                      ELSE Err(Error("invalid instr", w, <<>>))

-----------------------------------------------------------------------------
(* Labels: get_label *)

\* returns (line, label) as a record
get_label(l) ==
    LET i == Find(l, ":")
    IN  IF i = 0 THEN [line |-> l, label |-> None]
        ELSE IF Contains(SubSeq(l, 1, i - 1), " ")
             THEN [line |-> l, label |-> None]
             ELSE [line |-> SubSeq(l, i + 1, Len(l)),
                   label |-> Some(SubSeq(l, 1, i - 1))]

-----------------------------------------------------------------------------
(* Programs: parse_program *)

\* the label stored with the line number instead of the instruction count
LabelTargetLineNo(instrs, line_no) == line_no

\* labels.insert(label, instrs.len()): the value stored for a label
LabelTarget(instrs, line_no) == Len(instrs)

\* InstrAndPos { instr: instr, pos: line_no }: the pos stored with an instruction
InstrPos(instrs, line_no) == line_no

\* HashMap::new()
EmptyMap == [l \in {} |-> 0]

\* the for loop over buf.iter().enumerate(), from the line of index i
\* (line_no = i - 1)
RECURSIVE ProgramFrom(_, _, _, _)
ProgramFrom(b, i, instrs, labels) ==
    IF i > Len(b) THEN Ok([instrs |-> instrs, labels |-> labels])
    ELSE LET gl == get_label(b[i])
             inserted == IF gl.label.some
                         THEN (gl.label.val :> LabelTarget(instrs, i - 1)) @@ labels
                         ELSE labels
         IN  IF gl.label.some /\ gl.label.val \in DOMAIN labels
             THEN Err(Error("label already exists", gl.label.val, <<>>))
             ELSE LET pl == parse_line(gl.line)
                  IN  IF ~pl.ok THEN Err(pl.err)
                      ELSE IF pl.val.op \in {"Comment", "Emptyline"}
                           THEN ProgramFrom(b, i + 1, instrs, inserted)
                           ELSE ProgramFrom(b, i + 1,
                                    Append(instrs, [instr |-> pl.val,
                                                    pos |-> InstrPos(instrs, i - 1)]),
                                    inserted)

parse_program(b) == ProgramFrom(b, 1, <<>>, EmptyMap)

-----------------------------------------------------------------------------
(* Documents: parse_spec *)

\* format!("{}", n) for n >= 0
RECURSIVE Decimal(_)
Decimal(n) == IF n < 10 THEN <<Digits[n + 1]>>
              ELSE Decimal(n \div 10) \o <<Digits[(n % 10) + 1]>>

Header(n) == <<"@">> \o Decimal(n)
Header0 == Header(0)

\* the sequence test as `sec < next_section`: a gap passes
SectionCheckNoGap(sec, expected) ==
    IF sec < expected
    THEN Err(Error("expecting section, found section", <<>>, <<expected, sec>>))
    ELSE IF sec > MaxSection
         THEN Err(Error("section greater than maximum 11", <<>>, <<sec>>))
         ELSE Ok(sec)

\* `if sec != next_section {..} else if sec > 11 {..}`
SectionCheck(sec, expected) ==
    IF sec # expected
    THEN Err(Error("expecting section, found section", <<>>, <<expected, sec>>))
    ELSE IF sec > MaxSection
         THEN Err(Error("section greater than maximum 11", <<>>, <<sec>>))
         ELSE Ok(sec)

\* the popped line is not tested
EndSectionUnchecked(raw) ==
    IF raw = <<>> THEN Err(Error("invalid empty section", <<>>, <<>>))
    ELSE Ok(SubSeq(raw, 1, Len(raw) - 1))

\* raw_program.pop() and the is_empty test of the popped line; the value is
\* raw_program as it is pushed onto raw_programs
EndSection(raw) ==
    IF raw = <<>> THEN Err(Error("invalid empty section", <<>>, <<>>))
    ELSE IF raw[Len(raw)] # <<>>
         THEN Err(Error("invalid section: didn't end with an empty line", <<>>, <<>>))
         ELSE Ok(SubSeq(raw, 1, Len(raw) - 1))

\* the loop `for raw_program in raw_programs { programs.push(try!(..)) }`
RECURSIVE ParsePrograms(_, _, _)
ParsePrograms(raws, i, programs) ==
    IF i > Len(raws) THEN Ok([programs |-> programs])
    ELSE LET p == parse_program(raws[i])
         IN  IF ~p.ok THEN Err(p.err)
             ELSE ParsePrograms(raws, i + 1, Append(programs, p.val))

\* `return` and try!'s early return; the locals keep the values they had
Return(r) ==
    /\ pc' = "ret_parse_spec"
    /\ result' = r
    /\ UNCHANGED <<buf, line>>

\* buf.next() is None
EmptySpec ==
    /\ pc = "first_line"
    /\ doc' = doc
    /\ Return(Err(Error("invalid empty spec", <<>>, <<>>)))
    /\ UNCHANGED <<next_section, raw_program, raw_programs>>

\* buf.next() is Some(l), up to the start of the for loop
FirstLine(l) ==
    /\ pc = "first_line"
    /\ doc' = Append(doc, l)
    /\ IF l # Header0
       THEN /\ Return(Err(Error("invalid spec header, expecting @0", l, <<>>)))
            /\ UNCHANGED <<next_section, raw_program, raw_programs>>
       ELSE /\ pc' = "for_line"
            /\ next_section' = 1
            /\ raw_program' = <<>>
            /\ raw_programs' = <<>>
            /\ UNCHANGED <<buf, line, result>>

\* one iteration of `for line in buf`; next_section is a u8 that stays below
\* 13, since a header above 11 returns before the increment
\* (the print! of the completed section writes to stdout and changes nothing
\* the parse reads)
ReadLine(l) ==
    /\ pc = "for_line"
    /\ doc' = Append(doc, l)
    /\ IF StartsWith(l, "@")
       THEN LET sec == ParseU8(Tail(l))
                chk == SectionCheck(sec.val, next_section)
                ended == EndSection(raw_program)
            IN  IF ~sec.ok \/ ~chk.ok
                THEN /\ Return(Err(IF ~sec.ok THEN sec.err ELSE chk.err))
                     /\ UNCHANGED <<next_section, raw_program, raw_programs>>
                ELSE IF ~ended.ok
                THEN /\ Return(Err(ended.err))
                     /\ next_section' = next_section + 1
                     /\ raw_program' = SubSeq(raw_program, 1, Len(raw_program) - 1)
                     /\ UNCHANGED raw_programs
                ELSE /\ next_section' = next_section + 1
                     /\ raw_programs' = Append(raw_programs, ended.val)
                     /\ raw_program' = <<>>
                     /\ UNCHANGED <<pc, buf, line, result>>
       ELSE /\ raw_program' = Append(raw_program, l)
            /\ UNCHANGED <<pc, next_section, raw_programs, buf, line, result>>

\* the iterator is exhausted: the loop over raw_programs and the return
EndOfInput ==
    /\ pc = "for_line"
    /\ doc' = doc
    /\ Return(ParsePrograms(raw_programs, 1, <<>>))
    /\ UNCHANGED <<next_section, raw_program, raw_programs>>

-----------------------------------------------------------------------------
(* The documents, bodies and lines the calls are applied to *)

\* doc is what the Lines iterator yields: the input text split at line ends

LnNop == <<"N", "O", "P">>
LnBad == <<"B", "A", "D">>
LnLabelNop == <<"L", ":", "N", "O", "P">>
LnComment == <<"#", " ", "c">>
LnLabelOnly == <<"L", ":">>
LnLabelComment == <<"M", ":", "#", "c">>
LnHashLabelNop == <<"#", "a", ":", "N", "O", "P">>
LnHashLabelText == <<"#", "n", ":", "x">>
LnMov == <<"M", "O", "V", " ", "3", ",", " ", "A", "C", "C">>
LnMovNoComma == <<"M", "O", "V", " ", "3", " ", "A", "C", "C">>
LnAddBig == <<"A", "D", "D", " ", "3", "2", "7", "6", "8">>
LnJmp == <<"J", "M", "P", " ", "L">>
LnHeaderPadded == <<"@", "0", "1">>
LnHeaderBad == <<"@", "x">>

FirstLines == {Header0, Header(1), <<"@", "0", "0">>, LnNop, <<>>}
DocBodyLines == {<<>>, LnLabelNop, LnBad}

\* the header lines offered in the for loop: a repeat of the last section, the
\* expected section, a gap, a zero-padded numeral and a non-numeral
HeaderLines ==
    {Header(n) : n \in (next_section - 1)..(next_section + 1)}
        \cup {LnHeaderPadded, LnHeaderBad}

\* the body lines of doc that count against MaxExtra: all but a blank line
\* that directly follows a header or a non-blank body line
ExtraLines ==
    {i \in 2..Len(doc) : ~StartsWith(doc[i], "@") /\ ~(doc[i] = <<>> /\ doc[i - 1] # <<>>)}

NextLines ==
    IF pc # "for_line" THEN {}
    ELSE HeaderLines \cup
         {l \in DocBodyLines :
             \/ l = <<>> /\ doc[Len(doc)] # <<>>
             \/ next_section <= MaxRich /\ Cardinality(ExtraLines) < MaxExtra}

ProgramLines ==
    {<<>>, LnNop, LnBad, LnLabelNop, LnComment, LnLabelOnly, LnLabelComment,
     LnHashLabelNop, LnHashLabelText, LnMov, LnMovNoComma, LnAddBig, LnJmp}

LabelChars == {"a", ":", " ", "\t"}

SeqsUpTo(S, n) == UNION {[1..k -> S] : k \in 0..n}

-----------------------------------------------------------------------------
(* parse_spec applied to a document *)

Init ==
    /\ pc = "first_line"
    /\ doc = <<>>
    /\ next_section = 0
    /\ raw_program = <<>>
    /\ raw_programs = <<>>
    /\ buf = <<>>
    /\ line = <<>>
    /\ result = NoResult

Next ==
    \/ EmptySpec
    \/ \E l \in FirstLines : FirstLine(l)
    \/ \E l \in NextLines : ReadLine(l)
    \/ EndOfInput

Spec == Init /\ [][Next]_vars

(* parse_program applied to a section body *)

CallParseProgram ==
    /\ pc = "call_parse_program"
    /\ pc' = "ret_parse_program"
    /\ result' = parse_program(buf)
    /\ UNCHANGED <<doc, next_section, raw_program, raw_programs, buf, line>>

InitProgram ==
    /\ pc = "call_parse_program"
    /\ buf \in SeqsUpTo(ProgramLines, MaxBody)
    /\ doc = <<>>
    /\ next_section = 0
    /\ raw_program = <<>>
    /\ raw_programs = <<>>
    /\ line = <<>>
    /\ result = NoResult

SpecProgram == InitProgram /\ [][CallParseProgram]_vars

(* get_label applied to a line *)

CallGetLabel ==
    /\ pc = "call_get_label"
    /\ pc' = "ret_get_label"
    /\ result' = get_label(line)
    /\ UNCHANGED <<doc, next_section, raw_program, raw_programs, buf, line>>

InitLabel ==
    /\ pc = "call_get_label"
    /\ line \in SeqsUpTo(LabelChars, MaxLineLen)
    /\ doc = <<>>
    /\ next_section = 0
    /\ raw_program = <<>>
    /\ raw_programs = <<>>
    /\ buf = <<>>
    /\ result = NoResult

SpecLabel == InitLabel /\ [][CallGetLabel]_vars

-----------------------------------------------------------------------------
(* The section structure of doc, as the format describes it *)

Returned == pc = "ret_parse_spec"

\* the lines of doc that are section headers, the first line included
HeaderIdx == {i \in 1..Len(doc) : StartsWith(doc[i], "@")}

\* their indices in increasing order
RECURSIVE HeadersFrom(_)
HeadersFrom(i) ==
    IF i > Len(doc) THEN <<>>
    ELSE IF StartsWith(doc[i], "@") THEN <<i>> \o HeadersFrom(i + 1)
         ELSE HeadersFrom(i + 1)

Headers == HeadersFrom(1)
NumSections == Len(Headers)

\* the line of the k-th header of doc, k in 1..NumSections
HeaderAt(k) == Headers[k]

\* the body of the k-th section: the lines up to the next header or the end
BodyOf(k) ==
    LET hs == Headers
    IN  SubSeq(doc, hs[k] + 1, IF k < Len(hs) THEN hs[k + 1] - 1 ELSE Len(doc))

Terminated(body) == body # <<>> /\ body[Len(body)] = <<>>
Trimmed(body) == SubSeq(body, 1, Len(body) - 1)

\* a line that the instruction parser rejects once its label is taken off
Rejected(l) == ~parse_line(get_label(l).line).ok

\* a line that leaves an instruction in the Program
Retained(l) ==
    LET r == parse_line(get_label(l).line)
    IN  r.ok /\ r.val.op \notin {"Comment", "Emptyline"}

LabelOf(l) == get_label(l).label
DeclaredLabels(body) == {LabelOf(body[i]).val : i \in {j \in 1..Len(body) : LabelOf(body[j]).some}}
HasDuplicateLabel(body) ==
    \E i, j \in 1..Len(body) :
        i < j /\ LabelOf(body[i]).some /\ LabelOf(body[j]).some
              /\ LabelOf(body[i]).val = LabelOf(body[j]).val

WellFormed ==
    /\ doc # <<>>
    /\ doc[1] = Header0
    /\ NumSections <= MaxSection + 1
    /\ \A k \in 1..NumSections :
          /\ doc[HeaderAt(k)] = Header(k - 1)
          /\ Terminated(BodyOf(k))
          /\ parse_program(Trimmed(BodyOf(k))).ok

-----------------------------------------------------------------------------
(* Claims about parse_spec, under Spec *)

\* C1: every well-formed document of k sections parses to a Spec of exactly k
\* Programs, the i-th assembled from the body of section i, the final section
\* (closed by the end of input) included.
C1_AllSectionsAssembled ==
    (Returned /\ WellFormed) =>
        /\ result.ok
        /\ Len(result.val.programs) = NumSections
        /\ \A k \in 1..NumSections :
              result.val.programs[k] = parse_program(Trimmed(BodyOf(k))).val

\* C2: parse_spec succeeds only if the first line is @0 and the headers that
\* follow are numbered 1, 2, .. in that order, without gap, repeat or decrease,
\* and none above 11. The numeral of a header is read as str::parse::<u8>
\* reads it.
C2_HeadersInSequence ==
    (Returned /\ result.ok) =>
        /\ doc # <<>>
        /\ doc[1] = Header0
        /\ \A k \in 1..NumSections :
              LET n == ParseU8(Tail(doc[HeaderAt(k)]))
              IN  n.ok /\ n.val = k - 1 /\ n.val <= MaxSection

\* a document of twelve sections, numbered 0 to 11, was accepted
C2_Witness == Returned /\ result.ok /\ NumSections = MaxSection + 1

\* C3: at a header after the first line the section just completed must end
\* with an empty line: with an empty body, or a non-empty last line, the parse
\* has returned an error; otherwise the body without that terminator is what
\* is kept for parse_program, and what parse_program is given.
C3_SectionTerminator ==
    /\ (\E i \in HeaderIdx : i > 1 /\ doc[i - 1] # <<>>) =>
           (Returned /\ ~result.ok)
    /\ (pc = "for_line" \/ (Returned /\ result.ok)) =>
           /\ Len(raw_programs) = NumSections - 1
           /\ \A k \in 1..Len(raw_programs) :
                 /\ Terminated(BodyOf(k))
                 /\ raw_programs[k] = Trimmed(BodyOf(k))
    /\ (Returned /\ result.ok) =>
           /\ Len(result.val.programs) = Len(raw_programs)
           /\ \A k \in 1..Len(raw_programs) :
                 result.val.programs[k] = parse_program(Trimmed(BodyOf(k))).val

\* a document was accepted whose first section holds an instruction before
\* its terminator
C3_Witness ==
    /\ Returned /\ result.ok
    /\ Len(raw_programs) >= 1
    /\ Len(BodyOf(1)) >= 2
    /\ Len(result.val.programs[1].instrs) >= 1

\* C4: the final section obeys the same rule at the end of input: a final
\* body that does not end with an empty line makes parse_spec return an error,
\* and one that does is assembled without its terminator.
C4_FinalSectionTerminator ==
    (Returned /\ doc # <<>> /\ doc[1] = Header0) =>
        /\ ~Terminated(BodyOf(NumSections)) => ~result.ok
        /\ result.ok =>
              /\ Len(result.val.programs) = NumSections
              /\ result.val.programs[NumSections]
                    = parse_program(Trimmed(BodyOf(NumSections))).val

\* C5: a document with a body line that the instruction parser rejects, in
\* any section, the final one included, is never parsed to a Spec.
C5_FailFast ==
    (Returned /\ \E i \in 2..Len(doc) : ~StartsWith(doc[i], "@") /\ Rejected(doc[i]))
        => ~result.ok

\* C6: a label declared twice in the body of one section, the final one
\* included, makes the parse fail; a label declared once in each of two
\* sections is accepted, each Program holding its own entry.
C6_LabelScope ==
    Returned =>
        /\ (\E k \in 1..NumSections : HasDuplicateLabel(BodyOf(k))) => ~result.ok
        /\ result.ok =>
              \A k \in 1..Len(result.val.programs) :
                  DOMAIN result.val.programs[k].labels
                      = DeclaredLabels(Trimmed(BodyOf(k)))

-----------------------------------------------------------------------------
(* Claims about get_label, under SpecLabel *)

\* C7: get_label returns the text before the first colon as the label, and
\* the text after it as the line, when that text holds no whitespace character
\* (space, tab or other); otherwise no label and the line unchanged.
C7_LabelNeedsNoWhitespace ==
    pc = "ret_get_label" =>
        LET i == Find(line, ":")
        IN  IF i # 0 /\ \A j \in 1..(i - 1) : ~IsWhitespace(line[j])
            THEN /\ result.label = Some(SubSeq(line, 1, i - 1))
                 /\ result.line = SubSeq(line, i + 1, Len(line))
            ELSE /\ result.label = None
                 /\ result.line = line

-----------------------------------------------------------------------------
(* Claims about parse_program, under SpecProgram *)

Assembled == pc = "ret_parse_program" /\ result.ok

\* C8: in a returned Program every label maps to the number of retained
\* instructions before the label's line, which is the index of the next
\* retained instruction at or after that line: a value in 0..len(instrs), and
\* len(instrs) exactly when no retained instruction follows.
C8_LabelTargets ==
    Assembled =>
        /\ DOMAIN result.val.labels = DeclaredLabels(buf)
        /\ \A i \in 1..Len(buf) :
              LabelOf(buf[i]).some =>
                  LET v == result.val.labels[LabelOf(buf[i]).val]
                      n == Len(result.val.instrs)
                      after == {j \in i..Len(buf) : Retained(buf[j])}
                  IN  /\ v = Cardinality({j \in 1..(i - 1) : Retained(buf[j])})
                      /\ v \in 0..n
                      /\ (v = n) <=> (after = {})
                      /\ after # {} =>
                            LET j == CHOOSE m \in after : \A o \in after : m <= o
                            IN  result.val.instrs[v + 1].instr
                                    = parse_line(get_label(buf[j]).line).val

\* a label on a line that is dropped, after another dropped line and before
\* a retained instruction
C8_Witness ==
    /\ Assembled
    /\ \E i \in 1..Len(buf) :
          /\ LabelOf(buf[i]).some
          /\ ~Retained(buf[i])
          /\ \E j \in 1..(i - 1) : ~Retained(buf[j])
          /\ \E j \in (i + 1)..Len(buf) : Retained(buf[j])

\* C9: in a returned Program the pos of the i-th retained instruction
\* (0-based) is i: comment and blank lines before it do not count.
C9_PositionsCountRetained ==
    Assembled =>
        \A i \in 1..Len(result.val.instrs) : result.val.instrs[i].pos = i - 1

\* C10: a body line whose first character is '#' is inert: the body assembles
\* exactly as it does without its '#' lines, to the same labels and the same
\* instructions, or fails exactly as it does without them.
C10_CommentLinesInert ==
    pc = "ret_parse_program" =>
        LET NotComment(l) == ~StartsWith(l, "#")
            without == parse_program(SelectSeq(buf, NotComment))
        IN  /\ result.ok = without.ok
            /\ result.ok =>
                  /\ DOMAIN result.val.labels = DOMAIN without.val.labels
                  /\ Len(result.val.instrs) = Len(without.val.instrs)
                  /\ \A i \in 1..Len(result.val.instrs) :
                        result.val.instrs[i].instr = without.val.instrs[i].instr

====
